---- MODULE Spec2Model ----
(***************************************************************************)
(* A model of admin/cleanup.py: the planners that split listed cloud       *)
(* volumes and instances into destroy/keep, and the command line entry     *)
(* point built on them.                                                    *)
(*                                                                         *)
(* Times are integers counted in minutes.  Python strings that the code    *)
(* takes apart (cluster ids, date strings, instance names) are sequences   *)
(* of one-character strings.  A Python call that may raise is an operator  *)
(* returning a record whose status field is "ok" or the exception's name.  *)
(***************************************************************************)
EXTENDS Integers, Sequences, FiniteSets, TLC

\* ---------------------------------------------------------------- bounds
\* The most volumes the providers hold at once.
MaxVolumes == 2

\* The most overlays in the 'extra-aws' list of a configuration.
MaxOverlays == 2

\* The most instances the providers hold at once.
MaxNodes == 2

\* ------------------------------------------------------- python strings
LowerHex == <<"0","1","2","3","4","5","6","7","8","9","a","b","c","d","e","f">>
UpperHex == <<"0","1","2","3","4","5","6","7","8","9","A","B","C","D","E","F">>

IsHexChar(c) == \E i \in 1..16 : LowerHex[i] = c \/ UpperHex[i] = c

HexVal(c) == (CHOOSE i \in 1..16 : LowerHex[i] = c \/ UpperHex[i] = c) - 1

\* int(s, 16) of a short string of hexadecimal digits, most significant first.
RECURSIVE HexInt(_)
HexInt(s) ==
    IF s = <<>> THEN 0
    ELSE 16 * HexInt(SubSeq(s, 1, Len(s) - 1)) + HexVal(s[Len(s)])

StartsWith(s, prefix) ==
    /\ Len(prefix) <= Len(s)
    /\ SubSeq(s, 1, Len(prefix)) = prefix

\* s.replace(old, ''), for the two prefixes UUID() removes; an occurrence
\* is removed wherever it stands, the leftmost first.
RECURSIVE Remove(_, _)
Remove(s, old) ==
    IF Len(s) < Len(old) THEN s
    ELSE IF StartsWith(s, old) THEN Remove(SubSeq(s, Len(old) + 1, Len(s)), old)
    ELSE <<Head(s)>> \o Remove(Tail(s), old)

\* s.strip('{}')
RECURSIVE StripBraces(_)
StripBraces(s) ==
    IF s = <<>> THEN s
    ELSE IF Head(s) \in {"{", "}"} THEN StripBraces(Tail(s))
    ELSE IF s[Len(s)] \in {"{", "}"} THEN StripBraces(SubSeq(s, 1, Len(s) - 1))
    ELSE s

\* ------------------------------------------------------------ uuid.UUID
UuidHexLen == 32
UuidNodeDigits == 12

\* UUID(hex): the 32 hexadecimal digits left after the decoration is
\* removed, or ValueError.
UuidHex(cluster_id) ==
    SelectSeq(
        StripBraces(Remove(Remove(cluster_id, <<"u","r","n",":">>),
                           <<"u","u","i","d",":">>)),
        LAMBDA c : c # "-")

UuidParses(cluster_id) ==
    LET hex == UuidHex(cluster_id) IN
    /\ Len(hex) = UuidHexLen
    /\ \A i \in 1..Len(hex) : IsHexChar(hex[i])

\* UUID(hex).node: the low 48 bits, here as the pair of their high and low
\* 24 bits (a 48-bit number is wider than TLC's integers).
UuidNode(cluster_id) ==
    LET hex == UuidHex(cluster_id)
        first == UuidHexLen - UuidNodeDigits + 1
        half == UuidNodeDigits \div 2
    IN  << HexInt(SubSeq(hex, first, first + half - 1)),
           HexInt(SubSeq(hex, first + half, UuidHexLen)) >>

\* The same pair for a marker given as an integer.
NodePair(marker) == << marker \div (2 ^ 24), marker % (2 ^ 24) >>

\* ---------------------------------------------------------- date strings
DecChars == <<"0","1","2","3","4","5","6","7","8","9">>

DecVal(c) == (CHOOSE i \in 1..10 : DecChars[i] = c) - 1

\* A provider's date string for the minute t of the day: "HH:MM", with a
\* trailing "Z" when the provider states the zone.
DateString(t, zone) ==
    << DecChars[((t \div 60) \div 10) + 1], DecChars[((t \div 60) % 10) + 1], ":",
       DecChars[((t % 60) \div 10) + 1], DecChars[((t % 60) % 10) + 1] >> \o zone

\* dateutil's parse(): the minute the string names, and whether the datetime
\* it returns carries a zone.
parse_date(date_string) ==
    [ minutes |-> 60 * (10 * DecVal(date_string[1]) + DecVal(date_string[2]))
                  + 10 * DecVal(date_string[4]) + DecVal(date_string[5]),
      aware   |-> Len(date_string) > 5 /\ date_string[6] = "Z" ]

\* ------------------------------------------------------ sample resources
\* Minutes of the day at which the sample resources were created.
CreationTimes == { 0, 60, 120 }

\* datetime.now(): the runs happen at 03:00.
Now == 60 * 3

\* Values of --volume-lag and --instance-lag, in minutes.
LagChoices == { 60, 120 }

\* Values of --marker: int(option_value, base=16) of ABC123 and of DEF456.
MarkerABC123 == HexInt(<<"A","B","C","1","2","3">>)
MarkerDEF456 == HexInt(<<"D","E","F","4","5","6">>)

MarkerChoices == { MarkerABC123, MarkerDEF456 }

Zeros(n) == [ i \in 1..n |-> "0" ]

\* 00000000-0000-1000-8000-000000abc123
MarkerUuid ==
    Zeros(8) \o <<"-">> \o Zeros(4) \o <<"-","1","0","0","0","-","8","0","0","0","-">>
    \o Zeros(6) \o <<"a","b","c","1","2","3">>

\* urn:uuid:{00000000-0000-1000-8000-000000DEF456}
OtherUuid ==
    <<"u","r","n",":","u","u","i","d",":","{">> \o Zeros(8) \o <<"-">> \o Zeros(4)
    \o <<"-","1","0","0","0","-","8","0","0","0","-">>
    \o Zeros(6) \o <<"D","E","F","4","5","6","}">>

\* Values that uuid.UUID refuses: too short, and 32 characters that are not
\* all hexadecimal digits.
ShortId == <<"a","b","c","1","2","3">>
NotHexId == Zeros(26) \o <<"a","b","c","1","2","z">>

ClusterIds == { MarkerUuid, OtherUuid, ShortId, NotHexId }

\* uuid.UUID applied to each of the sample values: the node of the UUID it
\* builds, or the ValueError it raises.
UUID ==
    [ cluster_id \in ClusterIds |->
        IF UuidParses(cluster_id)
        THEN [ status |-> "ok", node |-> UuidNode(cluster_id) ]
        ELSE [ status |-> "ValueError", node |-> << 0, 0 >> ] ]

ClusterIdTag == "flocker-cluster-id"

\* A tag mapping that lacks the cluster id.
NameOnly == ("Name" :> <<"v","o","l">>)

TagMaps == { NameOnly } \cup { (ClusterIdTag :> c) : c \in ClusterIds }

\* The empty dict.
EmptyDict == [ k \in {} |-> k ]

\* What a Rackspace volume's extra holds: 'metadata' and 'created_at'.
RackspaceVolumeExtras ==
    { tagpart @@ timepart :
        tagpart \in { EmptyDict } \cup { ("metadata" :> m) : m \in TagMaps },
        timepart \in { EmptyDict }
                     \cup { ("created_at" :> DateString(t, <<>>)) : t \in CreationTimes } }

\* What an EC2 volume's extra holds: 'tags' and 'create_time'; some carry a
\* 'metadata' mapping besides.
Ec2VolumeExtras ==
    { tagpart @@ timepart :
        tagpart \in { EmptyDict } \cup { ("tags" :> m) : m \in TagMaps }
                    \cup { ("tags" :> NameOnly) @@ ("metadata" :> (ClusterIdTag :> MarkerUuid)) },
        timepart \in { EmptyDict } \cup { ("create_time" :> t) : t \in CreationTimes } }

\* The drivers whose volumes are enumerated, in the order of enumeration.
VolumeDrivers == << "rackspace", "ec2" >>

VolumeExtras(driver) ==
    IF driver = "rackspace" THEN RackspaceVolumeExtras ELSE Ec2VolumeExtras

\* 'acceptance-test-', 'client-test-'
DEFAULT_INSTANCE_NAME_PREFIXES ==
    << <<"a","c","c","e","p","t","a","n","c","e","-","t","e","s","t","-">>,
       <<"c","l","i","e","n","t","-","t","e","s","t","-">> >>

\* Values of the instance_name_prefixes option.
PrefixChoices == { DEFAULT_INSTANCE_NAME_PREFIXES }

\* Values of config['metadata']['creator'].
CreatorChoices == { <<"a","l","i","c","e">> }

\* acceptance-test-alice-worker-1, client-test-alice-1, acceptance-test-bob-1
NodeNames ==
    { <<"a","c","c","e","p","t","a","n","c","e","-","t","e","s","t","-","a","l","i","c","e","-","w","o","r","k","e","r","-","1">>,
      <<"c","l","i","e","n","t","-","t","e","s","t","-","a","l","i","c","e","-","1">>,
      <<"a","c","c","e","p","t","a","n","c","e","-","t","e","s","t","-","b","o","b","-","1">> }

\* libcloud's NodeState values the sample nodes are in.
NodeStates == { "RUNNING", "TERMINATED", "STOPPED" }

\* What a Rackspace node's extra holds: 'created', with the zone or, from an
\* API that leaves it out, without.
RackspaceNodeExtras ==
    { EmptyDict } \cup { ("created" :> DateString(t, <<"Z">>)) : t \in CreationTimes }
    \cup { ("created" :> DateString(0, <<>>)) }

\* What an EC2 node's extra holds: 'launch_time'.
Ec2NodeExtras == { ("launch_time" :> DateString(t, <<"Z">>)) : t \in CreationTimes }

\* The drivers whose nodes are enumerated, in the order of enumeration.
NodeDrivers == << "rackspace", "ec2" >>

NodeExtras(driver) == IF driver = "rackspace" THEN RackspaceNodeExtras ELSE Ec2NodeExtras

\* When the resources of the test cluster were created: three hours and
\* one hour before the runs.
LeakTimes == { 0, 120 }

\* The extra of a volume of the test cluster, as each provider gives it.
LeakedVolumeExtras(provider) ==
    IF provider = "rackspace"
    THEN { ("metadata" :> (ClusterIdTag :> MarkerUuid)) @@ ("created_at" :> DateString(t, <<>>)) :
             t \in LeakTimes }
    ELSE { ("tags" :> (ClusterIdTag :> MarkerUuid)) @@ ("create_time" :> t) : t \in LeakTimes }

\* The name, acceptance-test-alice-worker-1, and the extra of a running
\* instance of the test cluster.
LeakedNodeName == CHOOSE name \in NodeNames : Len(name) = 30

LeakedNodeExtras(provider) ==
    IF provider = "rackspace"
    THEN { ("created" :> DateString(t, <<"Z">>)) : t \in LeakTimes }
    ELSE { ("launch_time" :> DateString(t, <<"Z">>)) : t \in LeakTimes }

\* ------------------------------------------------------ provider clients
\* The entries of the sample acceptance.yml.
RackspaceEntry == [ username |-> "buildbot", key |-> "rk", region |-> "dfw" ]
AwsEntry == [ access_key |-> "AK1", secret_access_token |-> "S1", region |-> "us-east-1" ]

\* The overlays of its 'extra-aws' list: the same credentials in another
\* region, and other credentials in the same region.
WestOverlay == ("region" :> "us-west-2")
OtherOverlay == ("access_key" :> "AK2") @@ ("secret_access_token" :> "S2")

\* What yaml.safe_load returns for the sample acceptance.yml of a creator.
SampleConfig(creator) ==
    ("rackspace" :> RackspaceEntry) @@ ("aws" :> AwsEntry)
    @@ ("extra-aws" :> << WestOverlay, OtherOverlay >>)
    @@ ("metadata" :> ("creator" :> creator))

\* Values of options["config-file"].
ConfigChoices == { SampleConfig(creator) : creator \in CreatorChoices }

\* Entries an 'extra-aws' list is made of: overlays that name no field,
\* one field, two fields, every field.
OverlayChoices ==
    { [ k \in {} |-> k ], WestOverlay, OtherOverlay, WestOverlay @@ OtherOverlay,
      ("region" :> "eu-west-1"), ("access_key" :> "AK3"), ("secret_access_token" :> "S3") }

\* 'aws' entries.
AwsChoices ==
    { AwsEntry, [ access_key |-> "AK4", secret_access_token |-> "S4", region |-> "us-west-2" ] }

RECURSIVE OverlayLists(_)
OverlayLists(n) ==
    IF n = 0 THEN { <<>> }
    ELSE OverlayLists(n - 1)
         \cup { Append(list, extra) :
                  list \in { l \in OverlayLists(n - 1) : Len(l) = n - 1 },
                  extra \in OverlayChoices }

\* Configurations _get_cloud_drivers is called on: with no 'extra-aws' key,
\* and with a list of up to MaxOverlays overlays.
DriverConfigs ==
    { ("rackspace" :> RackspaceEntry) @@ ("aws" :> aws) : aws \in AwsChoices }
    \cup
    { ("rackspace" :> RackspaceEntry) @@ ("aws" :> aws) @@ ("extra-aws" :> extras) :
        aws \in AwsChoices, extras \in OverlayLists(MaxOverlays) }

\* The arguments get_driver(Provider.RACKSPACE) and get_driver(Provider.EC2)
\* are called with.
RackspaceArguments(rackspace) ==
    [ provider |-> "rackspace", username |-> rackspace["username"],
      key |-> rackspace["key"], region |-> rackspace["region"] ]

Ec2Arguments(aws) ==
    [ provider |-> "ec2", access_key |-> aws["access_key"],
      secret_access_token |-> aws["secret_access_token"], region |-> aws["region"] ]

\* The accounts the providers know, each with the arguments that open it.
AccountArguments ==
    ("rackspace" :> RackspaceArguments(RackspaceEntry))
    @@ ("ec2" :> Ec2Arguments(AwsEntry))
    @@ ("ec2-west" :> Ec2Arguments(WestOverlay @@ AwsEntry))
    @@ ("ec2-other" :> Ec2Arguments(OtherOverlay @@ AwsEntry))

Accounts == DOMAIN AccountArguments

\* The accounts, the primary ones first.
EveryAccount == << "rackspace", "ec2", "ec2-west", "ec2-other" >>

\* The account a driver's calls go to; no account takes arguments that are
\* not in the table.
Account(arguments) ==
    LET taking == { a \in Accounts : AccountArguments[a] = arguments } IN
    IF taking = {} THEN "unknown" ELSE CHOOSE a \in taking : TRUE

\* get_rackspace_driver: the libcloud driver built from the 'rackspace'
\* entry of the configuration, bound to the account its arguments open.
get_rackspace_driver(rackspace) ==
    RackspaceArguments(rackspace)
    @@ ("account" :> Account(RackspaceArguments(rackspace)))

\* get_ec2_driver: the libcloud driver built from an 'aws' entry.
get_ec2_driver(aws) ==
    Ec2Arguments(aws) @@ ("account" :> Account(Ec2Arguments(aws)))

AccountsOf(drivers) == [ i \in 1..Len(drivers) |-> drivers[i].account ]

\* ------------------------------------------------------------- the state
VARIABLES
    cloud_volumes,  \* account -> the volumes its list_volumes() returns
    cloud_nodes,    \* account -> the nodes its list_nodes() returns
    outage,         \* the accounts whose enumeration calls fail
    pc,             \* where the invoked operation stands
    options,        \* the arguments of the invoked operation
    actions,        \* what the operation returned or raised
    events          \* provider calls, output and exits, in the order they happen

vars == << cloud_volumes, cloud_nodes, outage, pc, options, actions, events >>

NoOptions == [ op |-> "none" ]
NoActions == [ status |-> "none" ]

ToSet(seq) == { seq[i] : i \in 1..Len(seq) }

\* What the accounts hold, one account after the other.
Flatten(cloud, accounts) ==
    LET RECURSIVE Cat(_)
        Cat(i) == IF i > Len(accounts) THEN <<>> ELSE cloud[accounts[i]] \o Cat(i + 1)
    IN  Cat(1)

Count(cloud, accounts) == Len(Flatten(cloud, accounts))

\* driver.list_volumes() and driver.list_nodes() raise while the driver's
\* account is out of reach, and when no account takes its credentials.
ListFails(account) == account \notin Accounts \/ account \in outage

\* ------------------------------------------------------ volume planning
Raised(exception) == [ status |-> exception ]
Returned(value) == [ status |-> "ok", value |-> value ]

\* _get_volume_creation_time: extra['create_time'], else the parsed
\* extra['created_at'] with the zone set to UTC, else KeyError.
_get_volume_creation_time(volume) ==
    IF "create_time" \in DOMAIN volume.extra
    THEN Returned(volume.extra["create_time"])
    ELSE IF "created_at" \in DOMAIN volume.extra
    THEN Returned(parse_date(volume.extra["created_at"]).minutes)
    ELSE Raised("KeyError")

\* A _get_tag that turns to 'metadata' when 'tags' lacks the tag.
_get_tag_either(volume, tag_name) ==
    IF "tags" \in DOMAIN volume.extra /\ tag_name \in DOMAIN volume.extra["tags"]
    THEN Returned(volume.extra["tags"][tag_name])
    ELSE IF "metadata" \in DOMAIN volume.extra /\ tag_name \in DOMAIN volume.extra["metadata"]
    THEN Returned(volume.extra["metadata"][tag_name])
    ELSE IF "tags" \in DOMAIN volume.extra \/ "metadata" \in DOMAIN volume.extra
    THEN Raised("KeyError")
    ELSE Raised("TypeError")

\* _get_tag: extra.get("tags", extra.get("metadata"))[tag_name]
_get_tag(volume, tag_name) ==
    LET mapping ==
            IF "tags" \in DOMAIN volume.extra THEN Returned(volume.extra["tags"])
            ELSE IF "metadata" \in DOMAIN volume.extra
            THEN Returned(volume.extra["metadata"])
            ELSE Raised("None")
    IN  IF mapping.status # "ok" THEN Raised("TypeError")
        ELSE IF tag_name \in DOMAIN mapping.value
        THEN Returned(mapping.value[tag_name])
        ELSE Raised("KeyError")

_get_cluster_id(volume) == _get_tag(volume, ClusterIdTag)

\* _is_test_cluster: UUID(cluster_id).node == marker, False when anything
\* is raised on the way.
_is_test_cluster(marker, cluster_id) ==
    IF UUID[cluster_id].status = "ok" THEN UUID[cluster_id].node = NodePair(marker) ELSE FALSE

\* _is_test_volume: a missing tag (KeyError) is caught, anything else that
\* _get_cluster_id raises leaves the method.
_is_test_volume(marker, volume) ==
    LET cluster_id == _get_cluster_id(volume) IN
    IF cluster_id.status = "KeyError" THEN Returned(FALSE)
    ELSE IF cluster_id.status # "ok" THEN Raised(cluster_id.status)
    ELSE Returned(_is_test_cluster(marker, cluster_id.value))

\* VolumeActions as built by a loop that appends every volume to keep.
VolumeActions_keep_every(destroy, keep) ==
    [ status |-> "ok", type |-> "VolumeActions", destroy |-> destroy,
      keep |-> destroy \o keep ]

VolumeActions(destroy, keep) ==
    [ status |-> "ok", type |-> "VolumeActions", destroy |-> destroy, keep |-> keep ]

\* The loop body with the age compared by >= in place of >.
FilterOne_at_lag(marker, maximum_age, now, volume) ==
    LET created == _get_volume_creation_time(volume)
        test == _is_test_volume(marker, volume)
    IN  IF created.status # "ok" THEN created.status
        ELSE IF test.status # "ok" THEN test.status
        ELSE IF test.value /\ now - created.value >= maximum_age THEN "destroy"
        ELSE "keep"

\* The loop body with the comparison turned around: the young are destroyed.
FilterOne_younger(marker, maximum_age, now, volume) ==
    LET created == _get_volume_creation_time(volume)
        test == _is_test_volume(marker, volume)
    IN  IF created.status # "ok" THEN created.status
        ELSE IF test.status # "ok" THEN test.status
        ELSE IF test.value /\ now - created.value < maximum_age THEN "destroy"
        ELSE "keep"

\* The loop body with a volume of unknown creation time kept.
FilterOne_unknown_kept(marker, maximum_age, now, volume) ==
    LET created == _get_volume_creation_time(volume)
        test == _is_test_volume(marker, volume)
    IN  IF created.status # "ok" THEN "keep"
        ELSE IF test.status # "ok" THEN test.status
        ELSE IF test.value /\ now - created.value > maximum_age THEN "destroy"
        ELSE "keep"

\* The body of the loop of _filter_test_volumes for one volume: "destroy",
\* "keep", or the exception that leaves the loop.
FilterOne(marker, maximum_age, now, volume) ==
    LET created == _get_volume_creation_time(volume)
        test == _is_test_volume(marker, volume)
    IN  IF created.status # "ok" THEN created.status
        ELSE IF test.status # "ok" THEN test.status
        ELSE IF test.value /\ now - created.value > maximum_age THEN "destroy"
        ELSE "keep"

_filter_test_volumes(marker, maximum_age, now, volumes) ==
    LET verdict == [ i \in 1..Len(volumes) |-> FilterOne(marker, maximum_age, now, volumes[i]) ]
        failed == { i \in 1..Len(volumes) : verdict[i] \notin {"destroy", "keep"} }
        Pick(which) ==
            LET RECURSIVE Go(_)
                Go(i) == IF i > Len(volumes) THEN <<>>
                         ELSE (IF verdict[i] = which THEN <<volumes[i].id>> ELSE <<>>) \o Go(i + 1)
            IN  Go(1)
    IN  IF failed # {}
        THEN Raised(verdict[CHOOSE i \in failed : \A j \in failed : i <= j])
        ELSE VolumeActions(Pick("destroy"), Pick("keep"))

\* A pass that updates base_ec2 itself, no copy made.
ExtraDriverConfig_no_copy(base_ec2, extra) ==
    [ extra_driver_config |-> extra @@ base_ec2, base_ec2 |-> extra @@ base_ec2 ]

\* One pass of the loop over config.get("extra-aws", []): the copy of
\* base_ec2 updated with the overlay, and base_ec2 as the pass leaves it.
ExtraDriverConfig(base_ec2, extra) ==
    [ extra_driver_config |-> extra @@ base_ec2, base_ec2 |-> base_ec2 ]

\* The loop: a driver for each overlay, in order, and base_ec2 as the loop
\* leaves it.
RECURSIVE ExtraDrivers(_, _)
ExtraDrivers(base_ec2, extras) ==
    IF extras = <<>> THEN [ drivers |-> <<>>, base_ec2 |-> base_ec2 ]
    ELSE LET pass == ExtraDriverConfig(base_ec2, Head(extras))
             rest == ExtraDrivers(pass.base_ec2, Tail(extras))
         IN  [ drivers |-> << get_ec2_driver(pass.extra_driver_config) >> \o rest.drivers,
               base_ec2 |-> rest.base_ec2 ]

\* config.get("extra-aws", [])
ExtraAws(config) == IF "extra-aws" \in DOMAIN config THEN config["extra-aws"] ELSE <<>>

\* A _get_cloud_drivers that stops at the two primary drivers.
_get_cloud_drivers_primary_only(config) ==
    << get_rackspace_driver(config["rackspace"]), get_ec2_driver(config["aws"]) >>

\* _get_cloud_drivers: the Rackspace driver, the driver of the 'aws' entry,
\* and a driver for each overlay of 'extra-aws'.
_get_cloud_drivers(config) ==
    LET base_ec2 == config["aws"] IN
    << get_rackspace_driver(config["rackspace"]), get_ec2_driver(base_ec2) >>
    \o ExtraDrivers(base_ec2, ExtraAws(config)).drivers

\* The configuration as _get_cloud_drivers leaves it.
ConfigAfterDrivers(config) ==
    [ config EXCEPT !["aws"] = ExtraDrivers(config["aws"], ExtraAws(config)).base_ec2 ]

\* _get_cloud_drivers applied to each of the sample configurations.
CloudDrivers == [ config \in ConfigChoices |-> _get_cloud_drivers(config) ]

\* _get_cloud_volumes: the lists of the drivers, one after the other; what
\* a list_volumes() raises leaves the method.
_get_cloud_volumes(drivers) ==
    LET accounts == AccountsOf(drivers) IN
    IF \E i \in 1..Len(accounts) : ListFails(accounts[i]) THEN Raised("LibcloudError")
    ELSE Returned(Flatten(cloud_volumes, accounts))

\* A start() that plans no destruction in a dry run.
CleanVolumes_start_dry_keeps(lag, marker, config, dry_run, now) ==
    LET volumes == _get_cloud_volumes(CloudDrivers[config]) IN
    IF volumes.status # "ok" THEN volumes
    ELSE LET plan == _filter_test_volumes(marker, lag, now, volumes.value) IN
         IF dry_run /\ plan.status = "ok"
         THEN VolumeActions(<<>>, plan.destroy \o plan.keep)
         ELSE plan

\* CleanVolumes(lag, marker).start(config, dry_run)
CleanVolumes_start(lag, marker, config, dry_run, now) ==
    LET volumes == _get_cloud_volumes(CloudDrivers[config]) IN
    IF volumes.status # "ok" THEN volumes
    ELSE _filter_test_volumes(marker, lag, now, volumes.value)

\* ---------------------------------------------------- instance planning
\* get_creation_time: the parsed extra.get("created", extra.get("launch_time")),
\* or None.
get_creation_time(node) ==
    IF "created" \in DOMAIN node.extra
    THEN [ none |-> FALSE, time |-> parse_date(node.extra["created"]) ]
    ELSE IF "launch_time" \in DOMAIN node.extra
    THEN [ none |-> FALSE, time |-> parse_date(node.extra["launch_time"]) ]
    ELSE [ none |-> TRUE ]

\* tuple(map(lambda prefix: prefix + creator, self.prefixes))
CreatorPrefixes(prefixes, creator) == [ i \in 1..Len(prefixes) |-> prefixes[i] \o creator ]

\* The filter without the terminated nodes.
IsTestNode_running_only(prefixes, node) ==
    /\ \E i \in 1..Len(prefixes) : StartsWith(node.name, prefixes[i])
    /\ node.state = "RUNNING"

\* node.name.startswith(prefixes) and
\* node.state in (NodeState.RUNNING, NodeState.TERMINATED)
IsTestNode(prefixes, node) ==
    /\ \E i \in 1..Len(prefixes) : StartsWith(node.name, prefixes[i])
    /\ node.state \in { "RUNNING", "TERMINATED" }

\* The splitting loop without the test for None.
SplitOne_unknown_destroyed(cutoff, node) ==
    LET creation_time == get_creation_time(node) IN
    IF creation_time.none THEN "destroyed"
    ELSE IF ~ creation_time.time.aware THEN "TypeError"
    ELSE IF creation_time.time.minutes < cutoff THEN "destroyed"
    ELSE "kept"

\* The body of the splitting loop for one test node; comparing a datetime
\* without a zone with the cutoff, which has one, raises TypeError.
SplitOne(cutoff, node) ==
    LET creation_time == get_creation_time(node) IN
    IF creation_time.none THEN "kept"
    ELSE IF ~ creation_time.time.aware THEN "TypeError"
    ELSE IF creation_time.time.minutes < cutoff THEN "destroyed"
    ELSE "kept"

\* drivers = [rackspace, ec2]
InstanceDrivers(config) ==
    << get_rackspace_driver(config["rackspace"]), get_ec2_driver(config["aws"]) >>

\* The drivers of start() for each of the sample configurations.
AcceptanceDrivers == [ config \in ConfigChoices |-> InstanceDrivers(config) ]

\* The loop with the failure of a list_nodes() caught, the driver skipped.
_list_nodes_skipping(drivers) ==
    LET accounts == AccountsOf(drivers) IN
    Returned(Flatten(cloud_nodes, SelectSeq(accounts, LAMBDA a : ~ ListFails(a))))

\* The loop all_nodes += driver.list_nodes(); what a list_nodes() raises
\* leaves start().
_list_nodes(drivers) ==
    LET accounts == AccountsOf(drivers) IN
    IF \E i \in 1..Len(accounts) : ListFails(accounts[i]) THEN Raised("LibcloudError")
    ELSE Returned(Flatten(cloud_nodes, accounts))

\* The filter and the split of start(), on the nodes that were listed.
SplitTestNodes(lag, prefixes, creator, now, all_nodes) ==
    LET cutoff == now - lag
        creator_prefixes == CreatorPrefixes(prefixes, creator)
        test_nodes == SelectSeq(all_nodes, LAMBDA node : IsTestNode(creator_prefixes, node))
        verdict == [ i \in 1..Len(test_nodes) |-> SplitOne(cutoff, test_nodes[i]) ]
        failed == { i \in 1..Len(test_nodes) : verdict[i] \notin {"destroyed", "kept"} }
        Pick(which) ==
            LET RECURSIVE Go(_)
                Go(i) == IF i > Len(test_nodes) THEN <<>>
                         ELSE (IF verdict[i] = which THEN <<test_nodes[i].id>> ELSE <<>>)
                              \o Go(i + 1)
            IN  Go(1)
    IN  IF failed # {}
        THEN Raised(verdict[CHOOSE i \in failed : \A j \in failed : i <= j])
        ELSE [ status |-> "ok", type |-> "dict",
               destroyed |-> Pick("destroyed"), kept |-> Pick("kept") ]

\* CleanAcceptanceInstances(lag, prefixes).start(config, dry_run)
CleanAcceptanceInstances_start(lag, prefixes, config, dry_run, now) ==
    LET all_nodes == _list_nodes(AcceptanceDrivers[config]) IN
    IF all_nodes.status # "ok" THEN all_nodes
    ELSE SplitTestNodes(lag, prefixes, config["metadata"]["creator"], now, all_nodes.value)

\* ------------------------------------------------------ provider calls
\* get_rackspace_driver / get_ec2_driver for each driver, then the
\* enumeration call on each, in order, up to the first that raises.
DriverCalls(call, drivers) ==
    LET accounts == AccountsOf(drivers)
        failing == { i \in 1..Len(accounts) : ListFails(accounts[i]) }
        last == IF failing = {} THEN Len(drivers)
                ELSE CHOOSE i \in failing : \A j \in failing : i <= j
    IN  [ i \in 1..Len(drivers) |-> [ event |-> "get_driver", target |-> accounts[i] ] ]
        \o [ i \in 1..last |-> [ event |-> call, target |-> accounts[i] ] ]

\* What CleanVolumes.start asks of the providers.
CleanVolumes_calls(config, dry_run, plan) ==
    DriverCalls("list_volumes", CloudDrivers[config])

\* A CleanAcceptanceInstances.start that destroys what it found too old,
\* dry run or not.
CleanAcceptanceInstances_calls_destroying(config, dry_run, plan) ==
    DriverCalls("list_nodes", AcceptanceDrivers[config])
    \o (IF plan.status = "ok"
        THEN [ i \in 1..Len(plan.destroyed) |->
                 [ event |-> "destroy", target |-> plan.destroyed[i] ] ]
        ELSE <<>>)

\* What CleanAcceptanceInstances.start asks of the providers: the two
\* enumerations; the split that follows calls nothing.
CleanAcceptanceInstances_calls(config, dry_run, plan) ==
    DriverCalls("list_nodes", AcceptanceDrivers[config])

\* ---------------------------------------------------------- the executor
\* A destroy_resource that lets the failure of destroy() through.
destroy_resource_unguarded(resource, failing) ==
    IF resource \in failing
    THEN [ status |-> "raised", events |-> << [ event |-> "destroy", target |-> resource ] >> ]
    ELSE [ status |-> "ok", events |-> << [ event |-> "destroy", target |-> resource ] >> ]

\* destroy_resource: resource.destroy(); whatever it raises is logged with
\* err(None, "Destroying resource.") and swallowed.  failing holds the
\* resources whose destroy() raises.
destroy_resource(resource, failing) ==
    IF resource \in failing
    THEN [ status |-> "ok",
           events |-> << [ event |-> "destroy", target |-> resource ],
                         [ event |-> "err", text |-> "Destroying resource." ] >> ]
    ELSE [ status |-> "ok", events |-> << [ event |-> "destroy", target |-> resource ] >> ]

\* The inner loop of perform_actions over one destroy list.
RECURSIVE DestroyAll(_, _)
DestroyAll(resources, failing) ==
    IF resources = <<>> THEN [ status |-> "ok", events |-> <<>> ]
    ELSE LET first == destroy_resource(Head(resources), failing) IN
         IF first.status # "ok" THEN first
         ELSE LET rest == DestroyAll(Tail(resources), failing) IN
              [ status |-> rest.status, events |-> first.events \o rest.events ]

\* perform_actions: for each action group, for each resource of its
\* .destroy, destroy_resource.  A dict has no attribute destroy.
RECURSIVE perform_actions(_, _)
perform_actions(resource_actions, failing) ==
    IF resource_actions = <<>> THEN [ status |-> "ok", events |-> <<>> ]
    ELSE LET action_group == Head(resource_actions) IN
         IF action_group.type # "VolumeActions"
         THEN [ status |-> "AttributeError", events |-> <<>> ]
         ELSE LET first == DestroyAll(action_group.destroy, failing) IN
              IF first.status # "ok" THEN first
              ELSE LET rest == perform_actions(Tail(resource_actions), failing) IN
                   [ status |-> rest.status, events |-> first.events \o rest.events ]

\* ---------------------------------------------------------- the reporter
\* _ActionEncoder.default on the members of one action group: a
\* VolumeActions becomes a dict of its two lists and each StorageVolume its
\* description; a dict is encoded as it is, and a Node in one of its lists
\* is what json cannot encode.
EncodeGroup(action_group) ==
    IF action_group.type = "VolumeActions"
    THEN Returned([ destroy |-> action_group.destroy, keep |-> action_group.keep ])
    ELSE IF action_group.destroyed = <<>> /\ action_group.kept = <<>>
    THEN Returned([ destroyed |-> <<>>, kept |-> <<>> ])
    ELSE Raised("TypeError")

\* print_actions: the one document written to standard output, or what
\* _dumps raises.
print_actions(resource_actions) ==
    IF \E i \in 1..Len(resource_actions) : EncodeGroup(resource_actions[i]).status # "ok"
    THEN Raised("TypeError")
    ELSE Returned([ i \in 1..Len(resource_actions) |-> EncodeGroup(resource_actions[i]).value ])

\* do_exit: SystemExit(1) at the first group whose .destroy is not empty; a
\* dict has no attribute destroy.
RECURSIVE do_exit(_)
do_exit(resource_actions) ==
    IF resource_actions = <<>> THEN "return"
    ELSE IF Head(resource_actions).type # "VolumeActions" THEN "AttributeError"
    ELSE IF Len(Head(resource_actions).destroy) > 0 THEN "SystemExit"
    ELSE do_exit(Tail(resource_actions))

\* ------------------------------------------------------- the entry point
\* Values of --config-file: the option left out, a path that does not
\* exist, a file that yaml's parser refuses, a good file.
ConfigFileChoices == { "missing", "no such file", "not yaml", "ok" }

\* The command lines of the sample runs.
MainArgs ==
    { [ config_file |-> c, dry_run |-> FALSE, instance_lag |-> 120, volume_lag |-> 120,
        marker |-> MarkerABC123, prefixes |-> DEFAULT_INSTANCE_NAME_PREFIXES ] :
        c \in ConfigFileChoices \ {"ok"} }
    \cup
    { [ config_file |-> "ok", dry_run |-> d, instance_lag |-> lag, volume_lag |-> 120,
        marker |-> MarkerABC123, prefixes |-> p ] :
        d \in BOOLEAN, lag \in LagChoices, p \in PrefixChoices }

\* A parseOptions whose postOptions and coercions check nothing.
parseOptions_unchecked(args) == Returned(args)

\* options.parseOptions(args): UsageError from postOptions when
\* --config-file is left out, from _existing_file_path_option when the file
\* does not exist, from _yaml_configuration_path_option when yaml's parser
\* refuses it with ParserError.
parseOptions(args) ==
    IF args.config_file = "ok" THEN Returned(args) ELSE Raised("UsageError")

Exit(code) == << [ event |-> "exit", code |-> code ] >>
Raise(exception) == << [ event |-> "raise", exception |-> exception ] >>

\* cleanup_cloud_resources_main, from the command line to the way the
\* process ends: the events of the run and the action groups it computed.
\* config is what the file named by --config-file holds.
cleanup_cloud_resources_main(args, config, now) ==
    IF parseOptions(args).status # "ok"
    THEN [ resource_actions |-> <<>>,
           events |-> << [ event |-> "stderr", text |-> "Usage Error" ] >> \o Exit(1) ]
    ELSE
    LET plan == CleanAcceptanceInstances_start(args.instance_lag, args.prefixes, config,
                                               args.dry_run, now)
        calls == CleanAcceptanceInstances_calls(config, args.dry_run, plan)
    IN  IF plan.status # "ok"
        THEN [ resource_actions |-> <<>>, events |-> calls \o Raise(plan.status) ]
        ELSE
        LET resource_actions == << plan >>
            printed == print_actions(resource_actions)
            exit == do_exit(resource_actions)
        IN  [ resource_actions |-> resource_actions,
              events |->
                calls \o
                (IF printed.status # "ok" THEN Raise(printed.status)
                 ELSE << [ event |-> "stdout", document |-> printed.value ] >> \o
                      (IF exit = "return" THEN Exit(0)
                       ELSE IF exit = "SystemExit" THEN Exit(1)
                       ELSE Raise(exit))) ]

\* ------------------------------------------------------------- behaviour
Init ==
    /\ cloud_volumes = [ a \in Accounts |-> <<>> ]
    /\ cloud_nodes = [ a \in Accounts |-> <<>> ]
    /\ outage = {}
    /\ pc = "idle"
    /\ options = NoOptions
    /\ actions = NoActions
    /\ events = <<>>

\* A test run leaves a volume behind in one of the accounts.  The accounts
\* of a behaviour hold volumes or instances: no operation reads both kinds.
ProviderCreatesVolume ==
    /\ pc = "idle"
    /\ Count(cloud_nodes, NodeDrivers) = 0
    /\ Count(cloud_volumes, VolumeDrivers) < MaxVolumes
    /\ \E i \in 1..Len(VolumeDrivers) :
         LET driver == VolumeDrivers[i] IN
         \E extra \in VolumeExtras(driver) :
            cloud_volumes' =
                [ cloud_volumes EXCEPT ![driver] =
                    Append(@, [ id |-> << driver, Len(@) + 1 >>, driver |-> driver,
                                extra |-> extra ]) ]
    /\ UNCHANGED << cloud_nodes, outage, pc, options, actions, events >>

StartVolumes ==
    /\ pc = "idle"
    /\ Count(cloud_nodes, EveryAccount) = 0
    /\ \E lag \in LagChoices, marker \in MarkerChoices, config \in ConfigChoices,
          dry_run \in BOOLEAN :
         /\ options' = [ op |-> "CleanVolumes.start", lag |-> lag, marker |-> marker,
                         config |-> config, dry_run |-> dry_run ]
         /\ actions' = CleanVolumes_start(lag, marker, config, dry_run, Now)
         /\ events' = CleanVolumes_calls(config, dry_run, actions')
    /\ pc' = "done"
    /\ UNCHANGED << cloud_volumes, cloud_nodes, outage >>

\* A test run leaves an instance behind in one of the accounts.
ProviderCreatesNode ==
    /\ pc = "idle"
    /\ Count(cloud_volumes, VolumeDrivers) = 0
    /\ Count(cloud_nodes, NodeDrivers) < MaxNodes
    /\ \E i \in 1..Len(NodeDrivers) :
         LET driver == NodeDrivers[i] IN
         \E name \in NodeNames, state \in NodeStates, extra \in NodeExtras(driver) :
            cloud_nodes' =
                [ cloud_nodes EXCEPT ![driver] =
                    Append(@, [ id |-> << driver, Len(@) + 1 >>, driver |-> driver,
                                name |-> name, state |-> state, extra |-> extra ]) ]
    /\ UNCHANGED << cloud_volumes, outage, pc, options, actions, events >>

StartInstances ==
    /\ pc = "idle"
    /\ Count(cloud_volumes, EveryAccount) = 0
    /\ \E lag \in LagChoices, prefixes \in PrefixChoices, config \in ConfigChoices,
          dry_run \in BOOLEAN :
         /\ options' = [ op |-> "CleanAcceptanceInstances.start", lag |-> lag,
                         prefixes |-> prefixes, config |-> config,
                         creator |-> config["metadata"]["creator"], dry_run |-> dry_run ]
         /\ actions' = CleanAcceptanceInstances_start(lag, prefixes, config, dry_run, Now)
         /\ events' = CleanAcceptanceInstances_calls(config, dry_run, actions')
    /\ pc' = "done"
    /\ UNCHANGED << cloud_volumes, cloud_nodes, outage >>

Next == ProviderCreatesVolume \/ StartVolumes \/ ProviderCreatesNode \/ StartInstances

\* The planners, each started on what the providers hold.
Spec == Init /\ [][Next]_vars

\* One run of the command line tool.
Main ==
    /\ pc = "idle"
    /\ \E args \in MainArgs, config \in ConfigChoices :
         LET run == cleanup_cloud_resources_main(args, config, Now) IN
         /\ options' = [ op |-> "cleanup_cloud_resources_main", args |-> args,
                         dry_run |-> args.dry_run, config |-> config, run |-> 1 ]
         /\ actions' = [ status |-> "ok", type |-> "list",
                         resource_actions |-> run.resource_actions ]
         /\ events' = run.events
    /\ pc' = "done"
    /\ UNCHANGED << cloud_volumes, cloud_nodes, outage >>

NextMain == ProviderCreatesNode \/ Main

SpecMain == Init /\ [][NextMain]_vars

\* The test cluster leaks one of its volumes in any of the accounts, the
\* extra ones included.
TestLeaksVolume ==
    /\ pc = "idle"
    /\ Count(cloud_nodes, EveryAccount) = 0
    /\ Count(cloud_volumes, EveryAccount) < MaxVolumes
    /\ \E account \in Accounts :
         \E extra \in LeakedVolumeExtras(AccountArguments[account].provider) :
            cloud_volumes' =
                [ cloud_volumes EXCEPT ![account] =
                    Append(@, [ id |-> << account, Len(@) + 1 >>, driver |-> account,
                                extra |-> extra ]) ]
    /\ UNCHANGED << cloud_nodes, outage, pc, options, actions, events >>

\* The test cluster leaks one of its instances in any of the accounts.
TestLeaksNode ==
    /\ pc = "idle"
    /\ Count(cloud_volumes, EveryAccount) = 0
    /\ Count(cloud_nodes, EveryAccount) < MaxNodes
    /\ \E account \in Accounts :
         \E extra \in LeakedNodeExtras(AccountArguments[account].provider) :
            cloud_nodes' =
                [ cloud_nodes EXCEPT ![account] =
                    Append(@, [ id |-> << account, Len(@) + 1 >>, driver |-> account,
                                name |-> LeakedNodeName, state |-> "RUNNING",
                                extra |-> extra ]) ]
    /\ UNCHANGED << cloud_volumes, outage, pc, options, actions, events >>

\* An account goes out of reach: its enumeration calls raise from now on.
AccountGoesDown ==
    /\ pc = "idle"
    /\ outage = {}
    /\ \E account \in Accounts : outage' = { account }
    /\ UNCHANGED << cloud_volumes, cloud_nodes, pc, options, actions, events >>

\* The tool is run again right after a run, on the same command line and
\* configuration, at the same time; options keeps what the first run
\* computed and did.
MainAgain ==
    /\ pc = "done"
    /\ options.op = "cleanup_cloud_resources_main"
    /\ options.run = 1
    /\ LET run == cleanup_cloud_resources_main(options.args, options.config, Now) IN
         /\ options' = [ op |-> options.op, args |-> options.args,
                         dry_run |-> options.dry_run, config |-> options.config, run |-> 2,
                         first |-> [ resource_actions |-> actions.resource_actions,
                                     events |-> events ] ]
         /\ actions' = [ status |-> "ok", type |-> "list",
                         resource_actions |-> run.resource_actions ]
         /\ events' = run.events
    /\ UNCHANGED << cloud_volumes, cloud_nodes, outage, pc >>

\* _get_cloud_drivers called on a configuration.
GetCloudDrivers ==
    /\ pc = "idle"
    /\ \E config \in DriverConfigs :
         /\ options' = [ op |-> "_get_cloud_drivers", config |-> config ]
         /\ actions' = [ status |-> "ok", drivers |-> _get_cloud_drivers(config),
                         config |-> ConfigAfterDrivers(config) ]
    /\ events' = <<>>
    /\ pc' = "done"
    /\ UNCHANGED << cloud_volumes, cloud_nodes, outage >>

NextDrivers == GetCloudDrivers

SpecDrivers == Init /\ [][NextDrivers]_vars

NextAccounts ==
    \/ TestLeaksVolume \/ TestLeaksNode \/ AccountGoesDown
    \/ StartVolumes \/ StartInstances \/ Main \/ MainAgain

\* The planners and the tool on the leaks of a test cluster, with accounts
\* that go out of reach.
SpecAccounts == Init /\ [][NextAccounts]_vars

\* The plans perform_actions is handed: one or two volume plans, or the
\* instance plan.
PerformInputs ==
    { << CleanVolumes_start(lag, marker, config, FALSE, Now) >> :
        lag \in LagChoices, marker \in MarkerChoices, config \in ConfigChoices }
    \cup
    { << CleanVolumes_start(lag, MarkerABC123, config, FALSE, Now),
         CleanVolumes_start(lag, MarkerDEF456, config, FALSE, Now) >> :
        lag \in LagChoices, config \in ConfigChoices }
    \cup
    { << CleanAcceptanceInstances_start(lag, prefixes, config, FALSE, Now) >> :
        lag \in LagChoices, prefixes \in PrefixChoices, config \in ConfigChoices }

Planned(resource_actions) ==
    UNION { ToSet(resource_actions[i].destroy) :
              i \in { j \in 1..Len(resource_actions) :
                        resource_actions[j].type = "VolumeActions" } }

\* perform_actions called on computed plans; the provider makes some of
\* the destroy() calls fail, and a volume whose destroy() succeeds is gone.
Perform ==
    /\ pc = "idle"
    /\ \E resource_actions \in PerformInputs :
         /\ \A i \in 1..Len(resource_actions) : resource_actions[i].status = "ok"
         /\ \E failing \in SUBSET Planned(resource_actions) :
              LET done == perform_actions(resource_actions, failing)
                  gone == { e.target : e \in { d \in ToSet(done.events) : d.event = "destroy" } }
                          \ failing
              IN  /\ options' = [ op |-> "perform_actions",
                                  resource_actions |-> resource_actions,
                                  failing |-> failing ]
                  /\ actions' = [ status |-> done.status ]
                  /\ events' = done.events
                  /\ cloud_volumes' =
                       [ d \in DOMAIN cloud_volumes |->
                           SelectSeq(cloud_volumes[d], LAMBDA v : v.id \notin gone) ]
    /\ pc' = "done"
    /\ UNCHANGED << cloud_nodes, outage >>

NextPerform == ProviderCreatesVolume \/ ProviderCreatesNode \/ Perform

SpecPerform == Init /\ [][NextPerform]_vars

\* ================================================================ claims
\* What the drivers of the run's configuration list.
ListedVolumes == Flatten(cloud_volumes, AccountsOf(CloudDrivers[options.config]))
ListedNodes == Flatten(cloud_nodes, AccountsOf(AcceptanceDrivers[options.config]))

VolumesRun == pc = "done" /\ options.op = "CleanVolumes.start"
InstancesRun == pc = "done" /\ options.op = "CleanAcceptanceInstances.start"
PlanReturned == (VolumesRun \/ InstancesRun) /\ actions.status = "ok"

\* The two lists of a returned plan, whichever names they go by.
PlanDestroy == IF actions.type = "dict" THEN actions.destroyed ELSE actions.destroy
PlanKeep == IF actions.type = "dict" THEN actions.kept ELSE actions.keep

NoDuplicates(seq) == Cardinality(ToSet(seq)) = Len(seq)

\* The mapping a volume's cluster id is read from.
TagMapping(volume) ==
    IF "tags" \in DOMAIN volume.extra THEN volume.extra["tags"]
    ELSE IF "metadata" \in DOMAIN volume.extra THEN volume.extra["metadata"]
    ELSE EmptyDict

\* A cluster-id tag is present and its value parses as a UUID whose node
\* field is the marker.
MarkedBy(marker, volume) ==
    /\ ClusterIdTag \in DOMAIN TagMapping(volume)
    /\ UUID[TagMapping(volume)[ClusterIdTag]].status = "ok"
    /\ UUID[TagMapping(volume)[ClusterIdTag]].node = NodePair(marker)

\* The instance's name starts with a configured prefix followed by the
\* creator, and it is running or terminated.
OwnedInstance(node) ==
    /\ \E i \in 1..Len(options.prefixes) :
          StartsWith(node.name, options.prefixes[i] \o options.creator)
    /\ node.state = "RUNNING" \/ node.state = "TERMINATED"

CreationKnown(node) == "created" \in DOMAIN node.extra \/ "launch_time" \in DOMAIN node.extra

\* C1 as stated: every returned plan, of volumes or of instances, holds each
\* listed resource of its kind in exactly one of destroy and keep.
C1_PartitionOfListed ==
    PlanReturned =>
        /\ ToSet(PlanDestroy) \cap ToSet(PlanKeep) = {}
        /\ NoDuplicates(PlanDestroy \o PlanKeep)
        /\ ToSet(PlanDestroy) \cup ToSet(PlanKeep) =
             { r.id : r \in ToSet(IF VolumesRun THEN ListedVolumes ELSE ListedNodes) }

\* C1 amended: destroy and keep are disjoint; a returned volume plan holds
\* every listed volume exactly once; a returned instance plan holds exactly
\* the listed instances that match a prefix+creator and are running or
\* terminated, each once, and no other listed instance.
C1_Partition ==
    PlanReturned =>
        /\ ToSet(PlanDestroy) \cap ToSet(PlanKeep) = {}
        /\ NoDuplicates(PlanDestroy \o PlanKeep)
        /\ VolumesRun =>
             ToSet(PlanDestroy) \cup ToSet(PlanKeep) = { v.id : v \in ToSet(ListedVolumes) }
        /\ InstancesRun =>
             ToSet(PlanDestroy) \cup ToSet(PlanKeep) =
                { n.id : n \in { m \in ToSet(ListedNodes) : OwnedInstance(m) } }

\* An instance plan that destroys one listed instance and leaves the other
\* listed instance out of both lists.
C1_Witness ==
    /\ PlanReturned /\ InstancesRun
    /\ Len(PlanDestroy) = 1 /\ Len(PlanKeep) = 0
    /\ Len(ListedNodes) = 2

\* C2 as stated: _is_test_volume returns, for every volume, whether a
\* cluster-id tag is present whose value parses as a UUID with the marker as
\* its node field; it never raises.
C2_IsTestVolumeTotal ==
    VolumesRun =>
        \A v \in ToSet(ListedVolumes) :
            _is_test_volume(options.marker, v) = Returned(MarkedBy(options.marker, v))

VolumeCreationKnown(volume) ==
    "create_time" \in DOMAIN volume.extra \/ "created_at" \in DOMAIN volume.extra

VolumeAge(volume) ==
    Now - (IF "create_time" \in DOMAIN volume.extra THEN volume.extra["create_time"]
           ELSE parse_date(volume.extra["created_at"]).minutes)

\* C3: in a returned volume plan a listed volume is in destroy iff it is
\* test-owned, its creation time is known and its age is strictly greater
\* than the lag.
C3_VolumeDestroyIff ==
    (PlanReturned /\ VolumesRun) =>
        \A v \in ToSet(ListedVolumes) :
            v.id \in ToSet(actions.destroy) <=>
                /\ MarkedBy(options.marker, v)
                /\ VolumeCreationKnown(v)
                /\ VolumeAge(v) > options.lag

\* Marker 0xABC123 and lag 120: a matching volume aged three hours is in
\* destroy and a matching volume whose age is the lag exactly is in keep.
C3_Witness ==
    /\ PlanReturned /\ VolumesRun
    /\ options.marker = MarkerABC123 /\ options.lag = 120
    /\ \E v, w \in ToSet(ListedVolumes) :
         /\ MarkedBy(options.marker, v) /\ VolumeAge(v) = 180
         /\ v.id \in ToSet(actions.destroy)
         /\ MarkedBy(options.marker, w) /\ VolumeAge(w) = 120
         /\ w.id \in ToSet(actions.keep)

NodeCreated(node) ==
    parse_date(IF "created" \in DOMAIN node.extra THEN node.extra["created"]
               ELSE node.extra["launch_time"]).minutes

C5_UnknownAlwaysKept ==
    (PlanReturned /\ InstancesRun) =>
        \A n \in ToSet(ListedNodes) :
            ~ CreationKnown(n) => n.id \in ToSet(actions.kept)

\* C5 amended: an instance whose creation time is unknown is never in the
\* destroy list; it is in the keep list iff its name and state make it a
\* test instance, and in neither list otherwise.
C5_UnknownNeverDestroyed ==
    (PlanReturned /\ InstancesRun) =>
        \A n \in ToSet(ListedNodes) :
            ~ CreationKnown(n) =>
                /\ n.id \notin ToSet(actions.destroyed)
                /\ n.id \in ToSet(actions.kept) <=> OwnedInstance(n)

\* A running test instance without a creation time, kept.
C5_Witness ==
    /\ PlanReturned /\ InstancesRun
    /\ \E n \in ToSet(ListedNodes) :
         /\ ~ CreationKnown(n) /\ OwnedInstance(n)
         /\ n.id \in ToSet(actions.kept)

\* Lags below the configured ones that the plan is recomputed under.
LowerLags == { 0, 30, 60, 90 }

\* The plan of the same run under another lag.
PlanUnder(lag) ==
    IF options.op = "CleanVolumes.start"
    THEN CleanVolumes_start(lag, options.marker, options.config, options.dry_run, Now)
    ELSE CleanAcceptanceInstances_start(lag, options.prefixes, options.config,
                                        options.dry_run, Now)

DestroyOf(plan) == IF plan.type = "dict" THEN plan.destroyed ELSE plan.destroy

\* C6: with now and the listed resources fixed, whatever a returned plan
\* destroys under its lag is destroyed under every smaller lag too.
C6_MonotoneInLag ==
    PlanReturned =>
        \A lower \in LowerLags :
            lower < options.lag =>
                LET plan == PlanUnder(lower) IN
                /\ plan.status = "ok"
                /\ ToSet(PlanDestroy) \subseteq ToSet(DestroyOf(plan))

\* A plan that destroys something, and destroys more under a smaller lag.
C6_Witness ==
    /\ PlanReturned
    /\ PlanDestroy # <<>>
    /\ \E lower \in LowerLags :
         /\ lower < options.lag
         /\ Len(DestroyOf(PlanUnder(lower))) > Len(PlanDestroy)

\* C7: what start() returns is what it returns with the other value of
\* dry_run, for volumes and for instances.
C7_DryRunSamePlan ==
    /\ VolumesRun =>
         actions = CleanVolumes_start(options.lag, options.marker, options.config,
                                      ~ options.dry_run, Now)
    /\ InstancesRun =>
         actions = CleanAcceptanceInstances_start(options.lag, options.prefixes,
                                                  options.config, ~ options.dry_run, Now)

\* A dry run of the volume planner whose plan destroys something.
C7_Witness ==
    /\ PlanReturned /\ VolumesRun
    /\ options.dry_run
    /\ actions.destroy # <<>>

MainRun == pc = "done" /\ options.op = "cleanup_cloud_resources_main"

\* The destroy() calls of the run, in order.
DestroyCalls == SelectSeq(events, LAMBDA e : e.event = "destroy")

CallsOn(resource) == Len(SelectSeq(DestroyCalls, LAMBDA e : e.target = resource))

\* C8: a run of cleanup_cloud_resources_main with --dry-run issues no
\* destroy call, whatever it planned; of the providers it asks enumerations
\* only.
C8_DryRunNoDestroy ==
    (MainRun /\ options.dry_run) =>
        \A i \in 1..Len(events) :
            events[i].event \in { "get_driver", "list_nodes", "stdout", "stderr",
                                  "exit", "raise" }

\* A dry run that enumerated and planned a destruction.
C8_Witness ==
    /\ MainRun /\ options.dry_run
    /\ \E i \in 1..Len(events) : events[i].event = "list_nodes"
    /\ \E i \in 1..Len(actions.resource_actions) :
         actions.resource_actions[i].destroyed # <<>>

\* C9 as stated: in a live run every resource of a plan's destroy set gets
\* exactly one destroy() call and no resource of a keep set gets any.
C9_LiveRunDestroysPlanned ==
    (MainRun /\ ~ options.dry_run) =>
        \A i \in 1..Len(actions.resource_actions) :
            /\ \A r \in ToSet(actions.resource_actions[i].destroyed) : CallsOn(r) = 1
            /\ \A r \in ToSet(actions.resource_actions[i].kept) : CallsOn(r) = 0

PerformDone == pc = "done" /\ options.op = "perform_actions"

\* Every group handed to perform_actions has a destroy list.
AllVolumeActions ==
    \A i \in 1..Len(options.resource_actions) :
        options.resource_actions[i].type = "VolumeActions"

\* The destroy lists of the groups, one after the other.
RECURSIVE DestroyLists(_)
DestroyLists(resource_actions) ==
    IF resource_actions = <<>> THEN <<>>
    ELSE Head(resource_actions).destroy \o DestroyLists(Tail(resource_actions))

\* C10: when perform_actions goes through the destroy lists of volume
\* plans, it returns without raising whichever destroy() calls fail; every
\* resource of every list gets its destroy() call, once and in order, and
\* each failed call is followed by its log entry.
C10_DestroyIsolation ==
    (PerformDone /\ AllVolumeActions) =>
        /\ actions.status = "ok"
        /\ [ i \in 1..Len(DestroyCalls) |-> DestroyCalls[i].target ]
             = DestroyLists(options.resource_actions)
        /\ \A i \in 1..Len(events) :
             (events[i].event = "destroy" /\ events[i].target \in options.failing) =>
                 (i < Len(events) /\ events[i + 1].event = "err")

\* The first destroy() failed and a later resource was still attempted.
C10_Witness ==
    /\ PerformDone /\ AllVolumeActions
    /\ Len(DestroyCalls) = 2
    /\ DestroyCalls[1].target \in options.failing
    /\ DestroyCalls[2].target \notin options.failing

\* The event a run ended with.
LastEvent == events[Len(events)]

\* The run got past option parsing, enumerated and computed its plans.
PlansComputed == MainRun /\ actions.resource_actions # <<>>

\* C11 as stated: a run that parsed its options and enumerated ends with
\* exit signal 1 when a computed plan has a non-empty destroy set and with
\* exit signal 0 when none has, dry run or not.
C11_ExitSignal ==
    PlansComputed =>
        /\ LastEvent.event = "exit"
        /\ LastEvent.code =
             IF \E i \in 1..Len(actions.resource_actions) :
                   DestroyOf(actions.resource_actions[i]) # <<>>
             THEN 1 ELSE 0

ProviderEvents == { "get_driver", "list_nodes", "list_volumes", "destroy" }

Reports == SelectSeq(events, LAMBDA e : e.event = "stdout")

\* What a report document has to hold for the plans: each plan's two lists.
RECURSIVE DocumentOf(_)
DocumentOf(resource_actions) ==
    IF resource_actions = <<>> THEN <<>>
    ELSE << IF Head(resource_actions).type = "dict"
            THEN [ destroyed |-> Head(resource_actions).destroyed,
                   kept |-> Head(resource_actions).kept ]
            ELSE [ destroy |-> Head(resource_actions).destroy,
                   keep |-> Head(resource_actions).keep ] >>
         \o DocumentOf(Tail(resource_actions))

\* C16 as stated: a run that computed its plans writes exactly one report
\* document, holding every resource of every plan under its set, and
\* writes it before the exit signal.
C16_OneReport ==
    PlansComputed =>
        /\ Len(Reports) = 1
        /\ Reports[1].document = DocumentOf(actions.resource_actions)
        /\ \A i, j \in 1..Len(events) :
             (events[i].event = "stdout" /\ events[j].event \in {"exit", "raise"}) => i < j

\* The accounts a run of the operation enumerates.
Enumerated ==
    AccountsOf(IF options.op = "CleanVolumes.start" THEN CloudDrivers[options.config]
               ELSE AcceptanceDrivers[options.config])

\* The enumeration of one of them fails.
EnumerationFails == \E i \in 1..Len(Enumerated) : Enumerated[i] \in outage

\* The enumeration calls that were made, in order.
ListCalls == SelectSeq(events, LAMBDA e : e.event \in { "list_volumes", "list_nodes" })

\* C12: when the enumeration of an account fails, start() raises what the
\* call raised and returns no plan; a run of the tool ends with that
\* exception, with no plan, no report and no destroy call; the accounts
\* before the failing one were enumerated, the ones after it were not.
C12_EnumerationFailureAborts ==
    /\ ((VolumesRun \/ InstancesRun) /\ EnumerationFails) =>
          /\ actions = Raised("LibcloudError")
          /\ DestroyCalls = <<>>
          /\ Len(ListCalls) <= Len(Enumerated)
          /\ ListCalls[Len(ListCalls)].target \in outage
          /\ \A i \in 1..Len(ListCalls) : ListCalls[i].target = Enumerated[i]
    /\ (MainRun /\ options.args.config_file = "ok" /\ EnumerationFails) =>
          /\ actions.resource_actions = <<>>
          /\ Reports = <<>>
          /\ DestroyCalls = <<>>
          /\ LastEvent = [ event |-> "raise", exception |-> "LibcloudError" ]
          /\ ListCalls[Len(ListCalls)].target \in outage

\* A live run of the tool: the rackspace account was enumerated and holds
\* an instance old enough to destroy, the enumeration of the ec2 account
\* failed.
C12_Witness ==
    /\ MainRun /\ ~ options.dry_run /\ options.args.config_file = "ok"
    /\ outage = { "ec2" }
    /\ Len(ListCalls) = 2
    /\ \E n \in ToSet(cloud_nodes["rackspace"]) :
         CreationKnown(n) /\ NodeCreated(n) < Now - options.args.instance_lag
    /\ LastEvent.event = "raise"

\* The volumes of every configured account, the extra ones included.
ConfiguredVolumes == Flatten(cloud_volumes, AccountsOf(CloudDrivers[options.config]))

\* C14 as stated: a run of the tool that passed option parsing and
\* enumerated computes a plan for instances and a plan for volumes, and a
\* volume marked by --marker and older than --volume-lag is in a destroy
\* set of the run's plans.
C14_VolumePlanComputed ==
    PlansComputed =>
        /\ Len(actions.resource_actions) = 2
        /\ \A v \in ToSet(ConfiguredVolumes) :
             (MarkedBy(options.args.marker, v) /\ VolumeAge(v) > options.args.volume_lag) =>
                 \E i \in 1..Len(actions.resource_actions) :
                     v.id \in ToSet(DestroyOf(actions.resource_actions[i]))

\* One client per configured account: the primary entry of each provider,
\* then each overlay of 'extra-aws' laid over the 'aws' entry.
ConfiguredAccounts(config) ==
    << Account(RackspaceArguments(config["rackspace"])), Account(Ec2Arguments(config["aws"])) >>
    \o [ i \in 1..Len(config["extra-aws"]) |->
           Account(Ec2Arguments(config["extra-aws"][i] @@ config["aws"])) ]

\* The resources of the run's kind that the accounts given hold.
HeldIn(accounts) ==
    Flatten(IF VolumesRun THEN cloud_volumes ELSE cloud_nodes, accounts)

\* The targets of the enumeration calls, in order.
ListTargets == [ i \in 1..Len(ListCalls) |-> ListCalls[i].target ]

\* C15 as stated: the volume planner and the instance planner alike
\* enumerate one client per configured account, in order, and their plans
\* hold the resources of the extra accounts.
C15_OneClientPerAccount ==
    (PlanReturned /\ outage = {}) =>
        /\ ListTargets = ConfiguredAccounts(options.config)
        /\ \A r \in ToSet(HeldIn(ConfiguredAccounts(options.config))) :
             r.id \in ToSet(PlanDestroy) \cup ToSet(PlanKeep)

\* C15 amended: the volume planner enumerates one client per configured
\* account, in order, and its plan holds the volumes of every one of them;
\* the instance planner enumerates the clients of the two primary entries
\* only, and no instance of an extra account is in its plan.
C15_ExtraAccountsForVolumesOnly ==
    (PlanReturned /\ outage = {}) =>
        /\ VolumesRun =>
             /\ ListTargets = ConfiguredAccounts(options.config)
             /\ \A v \in ToSet(HeldIn(ConfiguredAccounts(options.config))) :
                  v.id \in ToSet(PlanDestroy) \cup ToSet(PlanKeep)
        /\ InstancesRun =>
             /\ ListTargets = SubSeq(ConfiguredAccounts(options.config), 1, 2)
             /\ \A n \in ToSet(HeldIn(ConfiguredAccounts(options.config))) :
                  n.id \in ToSet(PlanDestroy) \cup ToSet(PlanKeep)
                      <=> n.driver \in { "rackspace", "ec2" }

\* An instance plan that leaves out an instance of the test cluster, three
\* hours old, that lives in the account of the first overlay.
C15_Witness ==
    /\ PlanReturned /\ InstancesRun /\ outage = {}
    /\ PlanDestroy = <<>>
    /\ \E n \in ToSet(cloud_nodes["ec2-west"]) : NodeCreated(n) = Now - 180

\* The first run was live and computed its plans; each resource of their
\* destroy sets got a destroy() call and is no longer held by its account.
FirstRunDestroyedAll ==
    /\ MainRun /\ options.run = 2 /\ ~ options.dry_run
    /\ options.first.resource_actions # <<>>
    /\ \A i \in 1..Len(options.first.resource_actions) :
         \A r \in ToSet(DestroyOf(options.first.resource_actions[i])) :
            /\ \E j \in 1..Len(options.first.events) :
                  options.first.events[j] = [ event |-> "destroy", target |-> r ]
            /\ r \notin { n.id : n \in ToSet(Flatten(cloud_nodes, EveryAccount)) }

\* C20 as stated: the run that follows a live run whose planned destroys
\* all succeeded plans nothing for destruction and ends with exit signal 0.
C20_SecondRunExitsZero ==
    FirstRunDestroyedAll =>
        /\ \A i \in 1..Len(actions.resource_actions) :
             DestroyOf(actions.resource_actions[i]) = <<>>
        /\ LastEvent = [ event |-> "exit", code |-> 0 ]

\* The cluster id is looked up in one mapping: 'tags' when the extra has
\* it, 'metadata' when it has no 'tags'.
HasMapping(volume) == "tags" \in DOMAIN volume.extra \/ "metadata" \in DOMAIN volume.extra

\* The id as C17 says it is looked up: under 'tags' first and, when it is
\* not found there, under 'metadata'.
IdInEither(volume) ==
    IF "tags" \in DOMAIN volume.extra /\ ClusterIdTag \in DOMAIN volume.extra["tags"]
    THEN << volume.extra["tags"][ClusterIdTag] >>
    ELSE IF "metadata" \in DOMAIN volume.extra
            /\ ClusterIdTag \in DOMAIN volume.extra["metadata"]
    THEN << volume.extra["metadata"][ClusterIdTag] >>
    ELSE <<>>

Matches(marker, cluster_id) ==
    UUID[cluster_id].status = "ok" /\ UUID[cluster_id].node = NodePair(marker)

\* C17 as stated, of the volumes that have a mapping to look in: a volume
\* is classified test-owned iff the id found under 'tags' or else under
\* 'metadata' matches the marker, and a volume that carries the id in
\* neither place is classified not test-owned.
C17_MetadataFallback ==
    VolumesRun =>
        \A v \in ToSet(ListedVolumes) :
            HasMapping(v) =>
                _is_test_volume(options.marker, v) =
                    Returned(IdInEither(v) # <<>> /\ Matches(options.marker, IdInEither(v)[1]))

\* C17 amended: in a returned plan a volume whose 'tags' lacks the id is
\* kept whatever its 'metadata' holds; a volume without 'tags' whose
\* 'metadata' holds an id matching the marker is destroyed once older than
\* the lag; a volume without 'tags' whose 'metadata' lacks the id is kept;
\* and no plan is returned when a listed volume has neither mapping.
C17_TagsShadowMetadata ==
    /\ (PlanReturned /\ VolumesRun) =>
          \A v \in ToSet(ListedVolumes) :
              /\ HasMapping(v)
              /\ ("tags" \in DOMAIN v.extra /\ ClusterIdTag \notin DOMAIN v.extra["tags"]) =>
                    v.id \in ToSet(actions.keep)
              /\ "tags" \notin DOMAIN v.extra =>
                    IF /\ ClusterIdTag \in DOMAIN v.extra["metadata"]
                       /\ Matches(options.marker, v.extra["metadata"][ClusterIdTag])
                       /\ VolumeAge(v) > options.lag
                    THEN v.id \in ToSet(actions.destroy)
                    ELSE v.id \in ToSet(actions.keep)
    /\ VolumesRun =>
          \A v \in ToSet(ListedVolumes) :
              _is_test_volume(options.marker, v) =
                  IF HasMapping(v) THEN Returned(MarkedBy(options.marker, v))
                  ELSE Raised("TypeError")

\* Marker 0xABC123 and lag 60: a volume three hours old whose 'tags' holds
\* a name only and whose 'metadata' holds the matching cluster id is kept.
C17_Witness ==
    /\ PlanReturned /\ VolumesRun
    /\ options.marker = MarkerABC123 /\ options.lag = 60
    /\ \E v \in ToSet(ListedVolumes) :
         /\ "tags" \in DOMAIN v.extra /\ "metadata" \in DOMAIN v.extra
         /\ v.extra["tags"] = NameOnly
         /\ Matches(options.marker, v.extra["metadata"][ClusterIdTag])
         /\ VolumeCreationKnown(v) /\ VolumeAge(v) = 180
         /\ v.id \in ToSet(actions.keep)

\* C18: when a listed volume has no creation time, start() returns no
\* plan, so the volume is in no destroy set and no keep set; it raises
\* KeyError, unless a volume listed before it made the classification
\* raise first.
C18_UnknownVolumeTimeRaises ==
    VolumesRun =>
        \A i \in 1..Len(ListedVolumes) :
            ~ VolumeCreationKnown(ListedVolumes[i]) =>
                /\ actions \in { Raised("KeyError"), Raised("TypeError") }
                /\ (\A j \in 1..(i - 1) :
                       VolumeCreationKnown(ListedVolumes[j]) /\ HasMapping(ListedVolumes[j]))
                     => actions = Raised("KeyError")

\* A volume marked by the marker and three hours old is listed before a
\* volume without a creation time: KeyError, and no plan.
C18_Witness ==
    /\ VolumesRun /\ actions = Raised("KeyError")
    /\ options.lag = 120
    /\ Len(ListedVolumes) = 2
    /\ MarkedBy(options.marker, ListedVolumes[1])
    /\ VolumeCreationKnown(ListedVolumes[1]) /\ VolumeAge(ListedVolumes[1]) = 180
    /\ ~ VolumeCreationKnown(ListedVolumes[2])

DriversRun == pc = "done" /\ options.op = "_get_cloud_drivers"

Ec2Fields == { "access_key", "secret_access_token", "region" }

\* C19: the driver of each overlay is built from the overlay's value for
\* every field the overlay names and the 'aws' entry's value for every
\* other field; the primary driver is built from the 'aws' entry; the
\* configuration is left as it was.
C19_OverlayMergeLeavesBase ==
    DriversRun =>
        LET base_ec2 == options.config["aws"]
            extras == IF "extra-aws" \in DOMAIN options.config
                      THEN options.config["extra-aws"] ELSE <<>>
        IN  /\ Len(actions.drivers) = 2 + Len(extras)
            /\ \A field \in Ec2Fields : actions.drivers[2][field] = base_ec2[field]
            /\ \A i \in 1..Len(extras) : \A field \in Ec2Fields :
                 actions.drivers[2 + i][field] =
                     IF field \in DOMAIN extras[i] THEN extras[i][field] ELSE base_ec2[field]
            /\ actions.config = options.config

\* Two overlays: the first names another region, the second other
\* credentials only, and its driver is in the region of the 'aws' entry.
C19_Witness ==
    /\ DriversRun
    /\ options.config["aws"] = AwsEntry
    /\ "extra-aws" \in DOMAIN options.config
    /\ options.config["extra-aws"] = << WestOverlay, OtherOverlay >>
    /\ actions.drivers[3].region = "us-west-2"
    /\ actions.drivers[4].region = "us-east-1"
    /\ actions.drivers[4].access_key = "AK2"

====
